---- MODULE Spec2Model ----
(***************************************************************************)
(* Model of src/api-helper.js: the authenticated REST client.  Every       *)
(* exported wrapper forwards to apiCall, which resolves a Firebase ID      *)
(* token, builds the fetch options, issues one fetch, parses the response  *)
(* body as JSON and either returns it or throws.                           *)
(*                                                                         *)
(* JavaScript values are records [k, b, n, s, e]: k is the type tag, b/n/s *)
(* the boolean/number/string payload and e the entries of an array or an   *)
(* object (a sequence of [key, v]).  Strings are TLA+ strings; the strings *)
(* used here contain no character that JSON.stringify would escape.        *)
(***************************************************************************)
EXTENDS Integers, Sequences, FiniteSets

\* number of call frames that may be in flight at the same time
NCalls == 2

Calls == 1..NCalls

-----------------------------------------------------------------------------
(* JavaScript values *)

Undefined == [k |-> "undefined", b |-> FALSE, n |-> 0, s |-> "", e |-> <<>>]
Null      == [k |-> "null",      b |-> FALSE, n |-> 0, s |-> "", e |-> <<>>]
Bool(x)   == [k |-> "boolean",   b |-> x,     n |-> 0, s |-> "", e |-> <<>>]
Num(x)    == [k |-> "number",    b |-> FALSE, n |-> x, s |-> "", e |-> <<>>]
Str(x)    == [k |-> "string",    b |-> FALSE, n |-> 0, s |-> x,  e |-> <<>>]
Arr(vs)   == [k |-> "array",     b |-> FALSE, n |-> 0, s |-> "",
              e |-> [i \in 1..Len(vs) |-> [key |-> "", v |-> vs[i]]]]
Obj(es)   == [k |-> "object",    b |-> FALSE, n |-> 0, s |-> "", e |-> es]
Field(name, val) == [key |-> name, v |-> val]

\* ECMAScript ToBoolean: the test of `if (x)`, `x ? a : b` and `x || y`
ToBoolean(v) ==
    CASE v.k = "undefined" -> FALSE
      [] v.k = "null"      -> FALSE
      [] v.k = "boolean"   -> v.b
      [] v.k = "number"    -> v.n # 0
      [] v.k = "string"    -> v.s # ""
      [] OTHER             -> TRUE

Digit == <<"0", "1", "2", "3", "4", "5", "6", "7", "8", "9">>

RECURSIVE NatStr(_)
NatStr(n) == IF n < 10 THEN Digit[n + 1]
             ELSE NatStr(n \div 10) \o Digit[(n % 10) + 1]

\* Number::toString for the integers
NumStr(n) == IF n < 0 THEN "-" \o NatStr(0 - n) ELSE NatStr(n)

RECURSIVE ToString(_)
RECURSIVE JoinFrom(_, _)
\* Array.prototype.join(","): null and undefined elements give ""
JoinFrom(es, i) ==
    IF i > Len(es) THEN ""
    ELSE (IF es[i].v.k \in {"null", "undefined"} THEN "" ELSE ToString(es[i].v))
         \o (IF i < Len(es) THEN "," ELSE "")
         \o JoinFrom(es, i + 1)

\* ECMAScript ToString: template literal interpolation and `new Error(x)`
ToString(v) ==
    CASE v.k = "undefined" -> "undefined"
      [] v.k = "null"      -> "null"
      [] v.k = "boolean"   -> IF v.b THEN "true" ELSE "false"
      [] v.k = "number"    -> NumStr(v.n)
      [] v.k = "string"    -> v.s
      [] v.k = "array"     -> JoinFrom(v.e, 1)
      [] OTHER             -> "[object Object]"

RECURSIVE JSONstringify(_)
RECURSIVE StringifyItems(_, _)
RECURSIVE StringifyFields(_, _, _)
\* the elements of an array; undefined serializes as null inside an array
StringifyItems(es, i) ==
    IF i > Len(es) THEN ""
    ELSE (IF es[i].v.k = "undefined" THEN "null" ELSE JSONstringify(es[i].v))
         \o (IF i < Len(es) THEN "," ELSE "")
         \o StringifyItems(es, i + 1)

\* the properties of an object; a property whose value is undefined is left out
StringifyFields(es, i, first) ==
    IF i > Len(es) THEN ""
    ELSE IF es[i].v.k = "undefined" THEN StringifyFields(es, i + 1, first)
    ELSE (IF first THEN "" ELSE ",")
         \o "\"" \o es[i].key \o "\":" \o JSONstringify(es[i].v)
         \o StringifyFields(es, i + 1, FALSE)

\* JSON.stringify of a value that is not undefined
JSONstringify(v) ==
    CASE v.k = "null"    -> "null"
      [] v.k = "boolean" -> IF v.b THEN "true" ELSE "false"
      [] v.k = "number"  -> NumStr(v.n)
      [] v.k = "string"  -> "\"" \o v.s \o "\""
      [] v.k = "array"   -> "[" \o StringifyItems(v.e, 1) \o "]"
      [] OTHER           -> "{" \o StringifyFields(v.e, 1, TRUE) \o "}"

\* does the object carry the property
HasOwn(v, name) == v.k = "object" /\ \E i \in 1..Len(v.e) : v.e[i].key = name

\* property read v.name on a value that is neither null nor undefined
Get(v, name) ==
    IF HasOwn(v, name)
    THEN v.e[CHOOSE i \in 1..Len(v.e) : v.e[i].key = name].v
    ELSE Undefined

\* a ?? b: only null and undefined give way to b
LogicalOr_nullish(a, b) == IF a.k \in {"null", "undefined"} THEN b ELSE a

\* a || b
LogicalOr(a, b) == IF ToBoolean(a) THEN a ELSE b

-----------------------------------------------------------------------------
(* The request primitive *)

\* const API_URL = import.meta.env.VITE_API_URL || 'http://localhost:8000'
API_URL == "http://localhost:8000"

\* the user object of a signed-in session, and auth.currentUser without one
NoUser   == Null
TheUser  == Obj(<<Field("uid", Str("u1"))>>)

\* the ID tokens the identity provider hands out
Tokens == {"tokA", "tokB"}

Error(msg)  == [name |-> "Error", message |-> msg]
NoError     == [name |-> "", message |-> ""]
\* what fetch, res.json() and a property read of null raise
FetchFailed == [name |-> "TypeError", message |-> "Failed to fetch"]
ParseFailed == [name |-> "SyntaxError", message |-> "Unexpected token"]
NullRead    == [name |-> "TypeError",
                message |-> "Cannot read properties of null (reading 'detail')"]
\* what user.getIdToken() raises when the token cannot be refreshed
TokenFailed == [name |-> "FirebaseError", message |-> "auth/network-request-failed"]

\* getToken without the test of the user
getToken_unchecked(user) == [throws |-> FALSE, err |-> NoError]

\* getToken up to its await: throws without a user, else awaits user.getIdToken()
getToken(user) ==
    IF ~ToBoolean(user)
    THEN [throws |-> TRUE,  err |-> Error("Not authenticated")]
    ELSE [throws |-> FALSE, err |-> NoError]

\* parameter binding of apiCall = async (method, endpoint, body = null)
apiCall(method, endpoint, body) ==
    [method |-> method, endpoint |-> endpoint,
     body |-> IF body = Undefined THEN Null ELSE body]

\* the headers of options
Headers(token) ==
    [ContentType |-> "application/json", Authorization |-> "Bearer " \o token]

\* options with the body set if (body !== null)
Options_nonnull(method, endpoint, body, token) ==
    [method  |-> method,
     url     |-> API_URL \o endpoint,
     headers |-> Headers(token),
     hasBody |-> body # Null,
     body    |-> IF body # Null THEN JSONstringify(body) ELSE ""]

\* options as fetch receives it, with the URL: body is set only if (body)
Options(method, endpoint, body, token) ==
    [method  |-> method,
     url     |-> API_URL \o endpoint,
     headers |-> Headers(token),
     hasBody |-> ToBoolean(body),
     body    |-> IF ToBoolean(body) THEN JSONstringify(body) ELSE ""]

\* fetch issued a second time
fetch_twice(sent, request) == Append(Append(sent, request), request)

\* fetch(url, options): the request goes out, once
fetch(sent, request) == Append(sent, request)

\* res.status === 200
ok_only200(status) == status = 200

\* res.ok
ok(status) == status >= 200 /\ status <= 299

\* the JSON values a response body may hold
DetailValues ==
    { Str("Not found"), Str(""), Num(0), Num(7), Bool(FALSE), Bool(TRUE), Null,
      Arr(<<>>), Arr(<<Str("a"), Str("b")>>),
      Arr(<<Obj(<<Field("msg", Str("field required"))>>)>>),
      Obj(<<Field("code", Num(1))>>) }

JSONValues ==
    { Null, Bool(TRUE), Bool(FALSE), Num(0), Num(42), Str(""), Str("ok"),
      Arr(<<>>), Arr(<<Num(1), Num(2)>>), Obj(<<>>),
      Obj(<<Field("message", Str("saved"))>>) }
    \cup { Obj(<<Field("detail", d)>>) : d \in DetailValues }
    \cup { Obj(<<Field("id", Num(3)), Field("detail", Str("Forbidden"))>>) }

\* response bodies that are not JSON
InvalidTexts == { "", "<html>Bad Gateway</html>", "{\"detail\":" }

\* res.json(): the value whose JSON text the body is, or a SyntaxError
JSONparse(text) ==
    IF \E v \in JSONValues : JSONstringify(v) = text
    THEN [ok |-> TRUE,  v |-> CHOOSE v \in JSONValues : JSONstringify(v) = text]
    ELSE [ok |-> FALSE, v |-> Undefined]

\* new Error(data.message || 'API error')
ErrorMessage_message(data) == ToString(LogicalOr(Get(data, "message"), Str("API error")))

\* the message of new Error(data.detail || 'API error')
ErrorMessage(data) == ToString(LogicalOr(Get(data, "detail"), Str("API error")))

\* apiCall after fetch resolved: parse, throw on a non-ok status, else return
Settle(res) ==
    LET parsed == JSONparse(res.text) IN
    IF ~parsed.ok
    THEN [state |-> "rejected", value |-> Undefined, err |-> ParseFailed]
    ELSE IF ~ok(res.status)
    THEN IF parsed.v.k \in {"null", "undefined"}
         THEN [state |-> "rejected", value |-> Undefined, err |-> NullRead]
         ELSE [state |-> "rejected", value |-> Undefined,
               err |-> Error(ErrorMessage(parsed.v))]
    ELSE [state |-> "resolved", value |-> parsed.v, err |-> NoError]

-----------------------------------------------------------------------------
(* The exported wrappers: each yields the arguments it passes to apiCall *)

verifyToken == apiCall("POST", "/auth/verify", Undefined)

timeIn(time_in, status) ==
    apiCall("POST", "/attendance/time-in",
            Obj(<<Field("time_in", time_in), Field("status", status)>>))

\* timeOut without the default of extra_hours
timeOut_nodefault(time_out, total_hours, extra_hours) ==
    apiCall("POST", "/attendance/time-out",
            Obj(<<Field("time_out", time_out), Field("total_hours", total_hours),
                  Field("extra_hours", extra_hours)>>))

\* extra_hours = 0 applies when the argument is undefined
timeOut(time_out, total_hours, extra_hours) ==
    LET hours == IF extra_hours = Undefined THEN Num(0) ELSE extra_hours IN
    apiCall("POST", "/attendance/time-out",
            Obj(<<Field("time_out", time_out), Field("total_hours", total_hours),
                  Field("extra_hours", hours)>>))

getMyAttendance == apiCall("GET", "/attendance/me", Undefined)

\* getAllAttendance with the test date !== null
getAllAttendance_nonnull(date) ==
    LET d == IF date = Undefined THEN Null ELSE date IN
    apiCall("GET",
            "/attendance/all" \o (IF d # Null THEN "?date=" \o ToString(d) ELSE ""),
            Undefined)

\* date = null applies when the argument is undefined
getAllAttendance(date) ==
    LET d == IF date = Undefined THEN Null ELSE date IN
    apiCall("GET",
            "/attendance/all" \o (IF ToBoolean(d) THEN "?date=" \o ToString(d) ELSE ""),
            Undefined)

bulkTimeOut(date, employee_uids) ==
    apiCall("POST", "/attendance/bulk-timeout",
            Obj(<<Field("date", date), Field("employee_uids", employee_uids)>>))

fileLeave(type, start_date, end_date, reason) ==
    apiCall("POST", "/leave",
            Obj(<<Field("type", type), Field("start_date", start_date),
                  Field("end_date", end_date), Field("reason", reason)>>))

getMyLeave == apiCall("GET", "/leave/me", Undefined)

getAllLeave == apiCall("GET", "/leave/all", Undefined)

updateLeaveStatus(uid, leaveId, status) ==
    apiCall("PUT", "/leave/" \o ToString(uid) \o "/" \o ToString(leaveId) \o "/status",
            Obj(<<Field("status", status)>>))

fileOvertime(date, hours, reason) ==
    apiCall("POST", "/overtime",
            Obj(<<Field("date", date), Field("hours", hours), Field("reason", reason)>>))

getMyOvertime == apiCall("GET", "/overtime/me", Undefined)

getAllOvertime == apiCall("GET", "/overtime/all", Undefined)

updateOTStatus(uid, otId, status) ==
    apiCall("PUT", "/overtime/" \o ToString(uid) \o "/" \o ToString(otId) \o "/status",
            Obj(<<Field("status", status)>>))

submitReport(week_start, week_end, summary) ==
    apiCall("POST", "/reports",
            Obj(<<Field("week_start", week_start), Field("week_end", week_end),
                  Field("summary", summary)>>))

getMyReports == apiCall("GET", "/reports/me", Undefined)

getAllReports == apiCall("GET", "/reports/all", Undefined)

updateReportStatus(uid, reportId, status) ==
    apiCall("PUT", "/reports/" \o ToString(uid) \o "/" \o ToString(reportId) \o "/status",
            Obj(<<Field("status", status)>>))

generatePayroll(data) == apiCall("POST", "/payroll", data)

getMyPayroll == apiCall("GET", "/payroll/me", Undefined)

getEmployeePayroll(uid) == apiCall("GET", "/payroll/" \o ToString(uid), Undefined)

getAllUsers == apiCall("GET", "/users", Undefined)

getMyProfile == apiCall("GET", "/users/me", Undefined)

createUser(data) == apiCall("POST", "/users", data)

\* updateUser sent as a POST
updateUser_post(uid, data) == apiCall("POST", "/users/" \o ToString(uid), data)

updateUser(uid, data) == apiCall("PUT", "/users/" \o ToString(uid), data)

toggleUserStatus(uid, status) ==
    apiCall("PUT", "/users/" \o ToString(uid) \o "/status",
            Obj(<<Field("status", status)>>))

\* the exported names, in source order
Exports ==
    << "verifyToken", "timeIn", "timeOut", "getMyAttendance", "getAllAttendance",
       "bulkTimeOut", "fileLeave", "getMyLeave", "getAllLeave", "updateLeaveStatus",
       "fileOvertime", "getMyOvertime", "getAllOvertime", "updateOTStatus",
       "submitReport", "getMyReports", "getAllReports", "updateReportStatus",
       "generatePayroll", "getMyPayroll", "getEmployeePayroll", "getAllUsers",
       "getMyProfile", "createUser", "updateUser", "toggleUserStatus" >>

ExportNames == { Exports[i] : i \in 1..Len(Exports) }

\* the i-th argument of a call; a missing argument is undefined
Arg(a, i) == IF i <= Len(a) THEN a[i] ELSE Undefined

\* calling the export `name` with the argument list a
Invoke(name, a) ==
    CASE name = "verifyToken"        -> verifyToken
      [] name = "timeIn"             -> timeIn(Arg(a, 1), Arg(a, 2))
      [] name = "timeOut"            -> timeOut(Arg(a, 1), Arg(a, 2), Arg(a, 3))
      [] name = "getMyAttendance"    -> getMyAttendance
      [] name = "getAllAttendance"   -> getAllAttendance(Arg(a, 1))
      [] name = "bulkTimeOut"        -> bulkTimeOut(Arg(a, 1), Arg(a, 2))
      [] name = "fileLeave"          -> fileLeave(Arg(a, 1), Arg(a, 2), Arg(a, 3), Arg(a, 4))
      [] name = "getMyLeave"         -> getMyLeave
      [] name = "getAllLeave"        -> getAllLeave
      [] name = "updateLeaveStatus"  -> updateLeaveStatus(Arg(a, 1), Arg(a, 2), Arg(a, 3))
      [] name = "fileOvertime"       -> fileOvertime(Arg(a, 1), Arg(a, 2), Arg(a, 3))
      [] name = "getMyOvertime"      -> getMyOvertime
      [] name = "getAllOvertime"     -> getAllOvertime
      [] name = "updateOTStatus"     -> updateOTStatus(Arg(a, 1), Arg(a, 2), Arg(a, 3))
      [] name = "submitReport"       -> submitReport(Arg(a, 1), Arg(a, 2), Arg(a, 3))
      [] name = "getMyReports"       -> getMyReports
      [] name = "getAllReports"      -> getAllReports
      [] name = "updateReportStatus" -> updateReportStatus(Arg(a, 1), Arg(a, 2), Arg(a, 3))
      [] name = "generatePayroll"    -> generatePayroll(Arg(a, 1))
      [] name = "getMyPayroll"       -> getMyPayroll
      [] name = "getEmployeePayroll" -> getEmployeePayroll(Arg(a, 1))
      [] name = "getAllUsers"        -> getAllUsers
      [] name = "getMyProfile"       -> getMyProfile
      [] name = "createUser"         -> createUser(Arg(a, 1))
      [] name = "updateUser"         -> updateUser(Arg(a, 1), Arg(a, 2))
      [] OTHER                       -> toggleUserStatus(Arg(a, 1), Arg(a, 2))

-----------------------------------------------------------------------------
(* The endpoint table of the README: method and path of every route *)

Route(m, parts) == [method |-> m, path |-> parts]

EndpointTable ==
    << Route("GET",  <<"/">>),
       Route("GET",  <<"/health">>),
       Route("POST", <<"/auth/verify">>),
       Route("POST", <<"/attendance/time-in">>),
       Route("POST", <<"/attendance/time-out">>),
       Route("GET",  <<"/attendance/me">>),
       Route("GET",  <<"/attendance/all">>),
       Route("POST", <<"/attendance/bulk-timeout">>),
       Route("POST", <<"/leave">>),
       Route("GET",  <<"/leave/me">>),
       Route("GET",  <<"/leave/all">>),
       Route("PUT",  <<"/leave/", "{uid}", "/", "{id}", "/status">>),
       Route("POST", <<"/overtime">>),
       Route("GET",  <<"/overtime/me">>),
       Route("GET",  <<"/overtime/all">>),
       Route("PUT",  <<"/overtime/", "{uid}", "/", "{id}", "/status">>),
       Route("POST", <<"/reports">>),
       Route("GET",  <<"/reports/me">>),
       Route("GET",  <<"/reports/all">>),
       Route("PUT",  <<"/reports/", "{uid}", "/", "{id}", "/status">>),
       Route("POST", <<"/payroll">>),
       Route("GET",  <<"/payroll/me">>),
       Route("GET",  <<"/payroll/", "{uid}">>),
       Route("GET",  <<"/users">>),
       Route("GET",  <<"/users/me">>),
       Route("POST", <<"/users">>),
       Route("PUT",  <<"/users/", "{uid}">>),
       Route("PUT",  <<"/users/", "{uid}", "/status">>) >>

\* the routes "/" and "/health" have no wrapper; the others follow in source order
RowOf(name) == EndpointTable[(CHOOSE i \in 1..Len(Exports) : Exports[i] = name) + 2]

RECURSIVE Fill(_, _, _)
\* the path of a route with {uid} and {id} taken from the first two arguments
Fill(parts, a, i) ==
    IF i > Len(parts) THEN ""
    ELSE (CASE parts[i] = "{uid}" -> ToString(Arg(a, 1))
            [] parts[i] = "{id}"  -> ToString(Arg(a, 2))
            [] OTHER              -> parts[i])
         \o Fill(parts, a, i + 1)

-----------------------------------------------------------------------------
(* The callers' inputs and the server's answers *)

Uids == { Str("u1"), Str("me") }

Payloads ==
    { Undefined, Null, Str(""), Num(0), Bool(FALSE), Str("x"), Num(5), Arr(<<>>),
      Obj(<<>>), Obj(<<Field("name", Str("Ann")), Field("rate", Num(12))>>) }

\* the argument lists each export is called with
ArgLists(name) ==
    CASE name = "timeIn" ->
           { <<Str("09:00"), Str("present")>>, <<Str("09:40"), Str("late")>> }
      [] name = "timeOut" ->
           { <<Str("17:00"), Num(8)>>, <<Str("17:00"), Num(8), Undefined>>,
             <<Str("17:00"), Num(8), Null>>, <<Str("17:00"), Num(8), Num(0)>>,
             <<Str("19:00"), Num(10), Num(2)>>, <<Str("17:00"), Num(8), Str("")>> }
      [] name = "getAllAttendance" ->
           { <<>>, <<Undefined>>, <<Null>>, <<Str("")>>, <<Num(0)>>, <<Bool(FALSE)>>,
             <<Str("2024-01-15")>>, <<Num(20240115)>> }
      [] name = "bulkTimeOut" ->
           { <<Str("2024-01-15"), Arr(<<Str("u1"), Str("u2")>>)>> }
      [] name = "fileLeave" ->
           { <<Str("sick"), Str("2024-01-15"), Str("2024-01-16"), Str("flu")>> }
      [] name \in {"updateLeaveStatus", "updateOTStatus", "updateReportStatus"} ->
           { <<u, Str("r9"), Str("approved")>> : u \in Uids }
      [] name = "fileOvertime" ->
           { <<Str("2024-01-15"), Num(2), Str("backlog")>> }
      [] name = "submitReport" ->
           { <<Str("2024-01-15"), Str("2024-01-19"), Str("done")>> }
      [] name \in {"generatePayroll", "createUser"} ->
           { <<>> } \cup { <<d>> : d \in Payloads }
      [] name = "getEmployeePayroll" ->
           { <<u>> : u \in Uids }
      [] name = "updateUser" ->
           { <<Str("u1")>> } \cup { <<Str("u1"), d>> : d \in Payloads }
      [] name = "toggleUserStatus" ->
           { <<u, Str("inactive")>> : u \in Uids }
      [] OTHER -> { <<>> }

\* every export with every one of its argument lists
Invocations == UNION { { <<name, a>> : a \in ArgLists(name) } : name \in ExportNames }

\* the status codes fetch may resolve with
Statuses == { 200, 201, 299, 300, 404, 422, 500 }

\* the responses of the server: a status and the text of the body
Responses ==
    { [status |-> st, text |-> tx] :
        st \in Statuses, tx \in { JSONstringify(v) : v \in JSONValues } \cup InvalidTexts }

\* the inputs and answers of the runs with several calls in flight
ConcurrentInvocations ==
    { <<"verifyToken", <<>>>>, <<"timeIn", <<Str("09:00"), Str("present")>>>> }

ConcurrentResponses ==
    { [status |-> 200, text |-> "null"],
      [status |-> 404, text |-> "{\"detail\":\"Not found\"}"] }

-----------------------------------------------------------------------------
(* State *)

VARIABLES
    currentUser,  \* auth.currentUser
    idToken,      \* the ID token the identity provider currently holds for the user
    pc,           \* per call frame: where the call stands
    op,           \* per call frame: the export that was called
    args,         \* per call frame: its argument list
    call,         \* per call frame: method, endpoint and body as bound by apiCall
    token,        \* per call frame: the const token of apiCall
    granted,      \* per call frame: what user.getIdToken() resolved with for it
    sent,         \* per call frame: the requests it handed to fetch
    res,          \* per call frame: the response fetch resolved with
    outcome       \* per call frame: how the returned promise settled

vars == <<currentUser, idToken, pc, op, args, call, token, granted, sent, res, outcome>>

session == <<currentUser, idToken>>

NoCall    == [method |-> "", endpoint |-> "", body |-> Undefined]
NoRes     == [status |-> 0, text |-> ""]
Pending   == [state |-> "pending", value |-> Undefined, err |-> NoError]
Rejected(e) == [state |-> "rejected", value |-> Undefined, err |-> e]

Init ==
    /\ currentUser = NoUser
    /\ idToken = ""
    /\ pc = [c \in Calls |-> "idle"]
    /\ op = [c \in Calls |-> ""]
    /\ args = [c \in Calls |-> <<>>]
    /\ call = [c \in Calls |-> NoCall]
    /\ token = [c \in Calls |-> ""]
    /\ granted = [c \in Calls |-> ""]
    /\ sent = [c \in Calls |-> <<>>]
    /\ res = [c \in Calls |-> NoRes]
    /\ outcome = [c \in Calls |-> Pending]

-----------------------------------------------------------------------------
(* The identity provider's session *)

SignIn(t) ==
    /\ currentUser = NoUser
    /\ currentUser' = TheUser
    /\ idToken' = t
    /\ UNCHANGED <<pc, op, args, call, token, granted, sent, res, outcome>>

SignOut ==
    /\ currentUser # NoUser
    /\ currentUser' = NoUser
    /\ UNCHANGED <<idToken, pc, op, args, call, token, granted, sent, res, outcome>>

\* the short-lived token expires and the provider replaces it
RefreshToken(t) ==
    /\ currentUser # NoUser
    /\ t # idToken
    /\ idToken' = t
    /\ UNCHANGED <<currentUser, pc, op, args, call, token, granted, sent, res, outcome>>

-----------------------------------------------------------------------------
(* One call of an export, step by step *)

\* the export is called: the wrapper calls apiCall, which runs getToken up to
\* its await; without a user the returned promise rejects at once
Call(c, name, a) ==
    /\ pc[c] = "idle"
    /\ op' = [op EXCEPT ![c] = name]
    /\ args' = [args EXCEPT ![c] = a]
    /\ call' = [call EXCEPT ![c] = Invoke(name, a)]
    /\ LET g == getToken(currentUser) IN
         IF g.throws
         THEN /\ pc' = [pc EXCEPT ![c] = "rejected"]
              /\ outcome' = [outcome EXCEPT ![c] = Rejected(g.err)]
         ELSE /\ pc' = [pc EXCEPT ![c] = "getIdToken"]
              /\ UNCHANGED outcome
    /\ UNCHANGED <<session, token, granted, sent, res>>

\* a token kept from another call in flight instead of the one just resolved
awaitToken_cached(c) ==
    IF \E d \in Calls \ {c} : token[d] # ""
    THEN token[CHOOSE d \in Calls \ {c} : token[d] # ""]
    ELSE idToken

\* what await getToken() yields in frame c
awaitToken(c) == idToken

\* user.getIdToken() resolves: apiCall builds options and calls fetch
TokenResolved(c) ==
    /\ pc[c] = "getIdToken"
    /\ granted' = [granted EXCEPT ![c] = idToken]
    /\ token' = [token EXCEPT ![c] = awaitToken(c)]
    /\ sent' = [sent EXCEPT ![c] =
                  fetch(sent[c], Options(call[c].method, call[c].endpoint,
                                         call[c].body, token'[c]))]
    /\ pc' = [pc EXCEPT ![c] = "fetch"]
    /\ UNCHANGED <<session, op, args, call, res, outcome>>

\* user.getIdToken() rejects: apiCall rejects with the same error
TokenRejected(c) ==
    /\ pc[c] = "getIdToken"
    /\ pc' = [pc EXCEPT ![c] = "rejected"]
    /\ outcome' = [outcome EXCEPT ![c] = Rejected(TokenFailed)]
    /\ UNCHANGED <<session, op, args, call, token, granted, sent, res>>

\* fetch resolves with a response
Responded(c, r) ==
    /\ pc[c] = "fetch"
    /\ res' = [res EXCEPT ![c] = r]
    /\ pc' = [pc EXCEPT ![c] = "json"]
    /\ UNCHANGED <<session, op, args, call, token, granted, sent, outcome>>

\* fetch rejects: the transport failed
FetchRejected(c) ==
    /\ pc[c] = "fetch"
    /\ pc' = [pc EXCEPT ![c] = "rejected"]
    /\ outcome' = [outcome EXCEPT ![c] = Rejected(FetchFailed)]
    /\ UNCHANGED <<session, op, args, call, token, granted, sent, res>>

\* res.json() settles: apiCall returns data or throws
BodyRead(c) ==
    /\ pc[c] = "json"
    /\ outcome' = [outcome EXCEPT ![c] = Settle(res[c])]
    /\ pc' = [pc EXCEPT ![c] = outcome'[c].state]
    /\ UNCHANGED <<session, op, args, call, token, granted, sent, res>>

\* the caller has taken the result; the frame is gone
Return(c) ==
    /\ pc[c] \in {"resolved", "rejected"}
    /\ pc' = [pc EXCEPT ![c] = "idle"]
    /\ op' = [op EXCEPT ![c] = ""]
    /\ args' = [args EXCEPT ![c] = <<>>]
    /\ call' = [call EXCEPT ![c] = NoCall]
    /\ token' = [token EXCEPT ![c] = ""]
    /\ granted' = [granted EXCEPT ![c] = ""]
    /\ sent' = [sent EXCEPT ![c] = <<>>]
    /\ res' = [res EXCEPT ![c] = NoRes]
    /\ outcome' = [outcome EXCEPT ![c] = Pending]
    /\ UNCHANGED session

-----------------------------------------------------------------------------
(* Specifications *)

\* one call at a time, every export with every argument list and response
Next ==
    \/ \E t \in Tokens : SignIn(t)
    \/ SignOut
    \/ \E t \in Tokens : RefreshToken(t)
    \/ \E i \in Invocations : Call(1, i[1], i[2])
    \/ TokenResolved(1)
    \/ TokenRejected(1)
    \/ \E r \in Responses : Responded(1, r)
    \/ FetchRejected(1)
    \/ BodyRead(1)
    \/ Return(1)

Spec == Init /\ [][Next]_vars

\* several calls in flight while the session changes
NextConcurrent ==
    \/ \E t \in Tokens : SignIn(t)
    \/ SignOut
    \/ \E t \in Tokens : RefreshToken(t)
    \/ \E c \in Calls, i \in ConcurrentInvocations : Call(c, i[1], i[2])
    \/ \E c \in Calls : TokenResolved(c)
    \/ \E c \in Calls : TokenRejected(c)
    \/ \E c \in Calls, r \in ConcurrentResponses : Responded(c, r)
    \/ \E c \in Calls : FetchRejected(c)
    \/ \E c \in Calls : BodyRead(c)
    \/ \E c \in Calls : Return(c)

SpecConcurrent == Init /\ [][NextConcurrent]_vars

TypeOK ==
    /\ pc \in [Calls -> {"idle", "getIdToken", "fetch", "json", "resolved", "rejected"}]
    /\ \A c \in Calls : Len(sent[c]) <= 1

-----------------------------------------------------------------------------
(* Properties *)

\* frame c has received a response and its promise has settled
Answered(c) == pc[c] \in {"resolved", "rejected"} /\ res[c] # NoRes

SuccessRange == 200..299

\* C1: an export called while auth.currentUser is absent rejects with the
\* 'Not authenticated' error at the call itself, and no request is handed to
\* fetch then or while the call stays rejected.
C1_NoSessionFailsBeforeNetwork ==
    [][\A c \in Calls :
         /\ (pc[c] = "idle" /\ pc'[c] # "idle" /\ currentUser = NoUser)
              => /\ pc'[c] = "rejected"
                 /\ outcome'[c] = Rejected(Error("Not authenticated"))
                 /\ sent'[c] = <<>>
         /\ (pc[c] = "rejected" /\ outcome[c].err = Error("Not authenticated"))
              => /\ sent[c] = <<>>
                 /\ sent'[c] = <<>>]_vars

C1_Witness ==
    \E c \in Calls :
        /\ pc[c] = "rejected"
        /\ op[c] = "bulkTimeOut"
        /\ currentUser = NoUser
        /\ outcome[c].err.message = "Not authenticated"
        /\ sent[c] = <<>>

\* C2: a call whose token was resolved has handed exactly one request to
\* fetch, at every later point of the call and whatever the response, and no
\* call ever has more than one request.
C2_ExactlyOneRequest ==
    \A c \in Calls :
        /\ Len(sent[c]) <= 1
        /\ granted[c] # "" => Len(sent[c]) = 1
        /\ (pc[c] \in {"fetch", "json", "resolved"} \/ res[c] # NoRes) => Len(sent[c]) = 1

C2_Witness ==
    \E c \in Calls :
        /\ pc[c] = "rejected"
        /\ res[c].status = 500
        /\ res[c].text \in InvalidTexts
        /\ Len(sent[c]) = 1

\* C3: a response with a status in 200..299 whose body is the JSON text of a
\* value v makes the call resolve with v.
C3_SuccessReturnsBody ==
    \A c \in Calls : \A v \in JSONValues :
        (Answered(c) /\ res[c].status \in SuccessRange /\ res[c].text = JSONstringify(v))
            => outcome[c] = [state |-> "resolved", value |-> v, err |-> NoError]

C3_Witness ==
    \E c \in Calls :
        /\ pc[c] = "resolved"
        /\ res[c] = [status |-> 299, text |-> "[1,2]"]
        /\ outcome[c].value = Arr(<<Num(1), Num(2)>>)

\* C4 as claimed: a non-success response whose body carries detail X rejects
\* with an Error whose message is X (its string form when X is not a string),
\* for every X.
C4_DetailIsMessage ==
    \A c \in Calls : \A v \in JSONValues :
        (Answered(c) /\ res[c].status \notin SuccessRange
           /\ res[c].text = JSONstringify(v) /\ HasOwn(v, "detail"))
            => outcome[c] = Rejected(Error(ToString(Get(v, "detail"))))

\* C4 as amended: the message is X when X is truthy (X itself for a non-empty
\* string, its string form otherwise) and "API error" when X is falsy: the
\* empty string, 0, false or null.
C4_TruthyDetailIsMessage ==
    \A c \in Calls : \A v \in JSONValues :
        (Answered(c) /\ res[c].status \notin SuccessRange
           /\ res[c].text = JSONstringify(v) /\ HasOwn(v, "detail"))
            => LET X == Get(v, "detail") IN
               /\ X \in {Str(""), Num(0), Bool(FALSE), Null}
                    => outcome[c] = Rejected(Error("API error"))
               /\ X \notin {Str(""), Num(0), Bool(FALSE), Null}
                    => outcome[c] = Rejected(Error(ToString(X)))
               /\ X = Str("Not found") => outcome[c].err.message = "Not found"

C4_Witness ==
    \E c \in Calls :
        /\ pc[c] = "rejected"
        /\ res[c] = [status |-> 422, text |-> "{\"detail\":\"\"}"]
        /\ outcome[c].err.message = "API error"

\* C5 as claimed: a non-success response whose body has no detail field, be
\* it a JSON value or not JSON at all, rejects with Error("API error").
C5_NoDetailIsApiError ==
    \A c \in Calls :
        (Answered(c) /\ res[c].status \notin SuccessRange
           /\ ~ \E v \in JSONValues : res[c].text = JSONstringify(v) /\ HasOwn(v, "detail"))
            => outcome[c] = Rejected(Error("API error"))

\* C5 as amended: the message is "API error" when the body is a JSON object
\* without detail, a JSON array or a JSON scalar other than null; a JSON null
\* body rejects with a TypeError and a body that is not JSON with the
\* SyntaxError of the parser.
C5_NoDetailNonNullIsApiError ==
    \A c \in Calls :
        (Answered(c) /\ res[c].status \notin SuccessRange)
            => /\ \A v \in JSONValues :
                    (res[c].text = JSONstringify(v) /\ ~HasOwn(v, "detail"))
                        => IF v = Null
                           THEN outcome[c].state = "rejected"
                                /\ outcome[c].err.name = "TypeError"
                           ELSE outcome[c] = Rejected(Error("API error"))
               /\ res[c].text \in InvalidTexts
                    => outcome[c].state = "rejected"
                       /\ outcome[c].err.name = "SyntaxError"

C5_Witness ==
    \E c \in Calls :
        /\ pc[c] = "rejected"
        /\ res[c] = [status |-> 500, text |-> "{\"message\":\"saved\"}"]
        /\ outcome[c].err = Error("API error")

\* the request frame c handed to fetch
Request(c) == sent[c][1]

\* C6 as claimed: getAllAttendance requests /attendance/all?date=<value>
\* exactly when its argument is neither null nor undefined, and /attendance/all
\* otherwise.
C6_QueryWhenNonNull ==
    \A c \in Calls :
        (op[c] = "getAllAttendance" /\ sent[c] # <<>>)
            => LET date == Arg(args[c], 1) IN
               Request(c).url =
                   IF date \notin {Null, Undefined}
                   THEN API_URL \o "/attendance/all?date=" \o ToString(date)
                   ELSE API_URL \o "/attendance/all"

\* C6 as amended: the query string is appended, once, exactly when the
\* argument is truthy; without an argument, and with null, "", 0 or false, the
\* path is /attendance/all with no query string.
C6_QueryWhenTruthy ==
    \A c \in Calls :
        (op[c] = "getAllAttendance" /\ sent[c] # <<>>)
            => LET date == Arg(args[c], 1) IN
               /\ Request(c).method = "GET"
               /\ date \in {Undefined, Null, Str(""), Num(0), Bool(FALSE)}
                    => Request(c).url = API_URL \o "/attendance/all"
               /\ date \notin {Undefined, Null, Str(""), Num(0), Bool(FALSE)}
                    => Request(c).url = API_URL \o "/attendance/all?date=" \o ToString(date)
               /\ date = Str("2024-01-15")
                    => Request(c).url = "http://localhost:8000/attendance/all?date=2024-01-15"

C6_Witness ==
    \E c \in Calls :
        /\ op[c] = "getAllAttendance"
        /\ args[c] = <<Str("")>>
        /\ sent[c] # <<>>
        /\ Request(c).url = "http://localhost:8000/attendance/all"

\* the body argument an export passes to apiCall, as the caller supplied it
Supplied(c) ==
    CASE op[c] \in {"generatePayroll", "createUser"} -> Arg(args[c], 1)
      [] op[c] = "updateUser" -> Arg(args[c], 2)
      [] OTHER -> call[c].body

\* C7 as claimed: the request carries a body exactly when a body was supplied
\* (a value other than null or undefined), and then it is the JSON text of
\* that value.
C7_BodyWhenSupplied ==
    \A c \in Calls :
        sent[c] # <<>>
            => /\ Request(c).hasBody <=> Supplied(c) \notin {Null, Undefined}
               /\ Supplied(c) \notin {Null, Undefined}
                    => Request(c).body = JSONstringify(Supplied(c))

\* C7 as amended: the request carries a body exactly when the supplied body
\* is truthy, and then it is the JSON text of that value; null, undefined, "",
\* 0 and false are sent without a body.
C7_BodyWhenTruthy ==
    \A c \in Calls :
        sent[c] # <<>>
            => /\ Request(c).hasBody
                    <=> Supplied(c) \notin {Null, Undefined, Str(""), Num(0), Bool(FALSE)}
               /\ Request(c).hasBody => Request(c).body = JSONstringify(Supplied(c))
               /\ ~Request(c).hasBody => Request(c).body = ""

C7_Witness ==
    \E c \in Calls :
        /\ op[c] = "createUser"
        /\ args[c] = <<Num(0)>>
        /\ sent[c] # <<>>
        /\ ~Request(c).hasBody

\* C8: every request carries Content-Type: application/json and
\* Authorization: Bearer <token>, where <token> is what user.getIdToken()
\* resolved with for that very call, whatever other calls are in flight and
\* however the session's token changed.
C8_FreshTokenPerCall ==
    \A c \in Calls : \A i \in 1..Len(sent[c]) :
        /\ granted[c] \in Tokens
        /\ sent[c][i].headers =
               [ContentType |-> "application/json",
                Authorization |-> "Bearer " \o granted[c]]

C8_Witness ==
    \E c, d \in Calls :
        /\ pc[c] = "fetch" /\ pc[d] = "json"
        /\ Request(c).headers.Authorization = "Bearer tokA"
        /\ Request(d).headers.Authorization = "Bearer tokB"
        /\ idToken = "tokA"

\* the method and path template of an export, read off the code by calling it
\* with the placeholders as arguments
TemplateOf(name) ==
    LET row == RowOf(name)
        a   == IF Len(row.path) > 1 THEN <<Str("{uid}"), Str("{id}")>> ELSE <<>>
    IN  [method |-> Invoke(name, a).method, path |-> Invoke(name, a).endpoint]

\* C9: a call of an export uses the method and the path of its row of the
\* endpoint table, with {uid} and {id} taken from its arguments (and for
\* getAllAttendance possibly a ?date= query); the method is GET, POST or PUT;
\* no other export has the same method and path template; timeIn("09:00",
\* "present") posts {"time_in":"09:00","status":"present"} to
\* /attendance/time-in.
C9_EndpointTable ==
    \A c \in Calls :
        sent[c] # <<>>
            => LET row  == RowOf(op[c])
                   path == Fill(row.path, args[c], 1)
               IN
               /\ Request(c).method = row.method
               /\ Request(c).method \in {"GET", "POST", "PUT"}
               /\ IF op[c] = "getAllAttendance"
                  THEN Request(c).url \in
                           { API_URL \o path,
                             API_URL \o path \o "?date=" \o ToString(Arg(args[c], 1)) }
                  ELSE Request(c).url = API_URL \o path
               /\ TemplateOf(op[c]) = [method |-> row.method, path |-> Fill(row.path, <<>>, 1)]
                  \/ TemplateOf(op[c]) =
                        [method |-> row.method,
                         path |-> Fill(row.path, <<Str("{uid}"), Str("{id}")>>, 1)]
               /\ \A other \in ExportNames \ {op[c]} : TemplateOf(other) # TemplateOf(op[c])
               /\ (op[c] = "timeIn" /\ args[c] = <<Str("09:00"), Str("present")>>)
                    => /\ Request(c).method = "POST"
                       /\ Request(c).url = "http://localhost:8000/attendance/time-in"
                       /\ Request(c).hasBody
                       /\ Request(c).body = "{\"time_in\":\"09:00\",\"status\":\"present\"}"

C9_Witness ==
    \E c \in Calls :
        /\ op[c] = "timeIn"
        /\ args[c] = <<Str("09:00"), Str("present")>>
        /\ pc[c] = "resolved"
        /\ Request(c).body = "{\"time_in\":\"09:00\",\"status\":\"present\"}"

\* C10: timeOut posts to /attendance/time-out a body with the time_out and
\* total_hours it was given and extra_hours 0 when the third argument is
\* missing, and the third argument when it is given.
C10_ExtraHoursDefault ==
    \A c \in Calls :
        (op[c] = "timeOut" /\ sent[c] # <<>>)
            => LET a == args[c] IN
               /\ Request(c).method = "POST"
               /\ Request(c).url = API_URL \o "/attendance/time-out"
               /\ Request(c).hasBody
               /\ Arg(a, 3) = Undefined
                    => Request(c).body =
                         JSONstringify(Obj(<<Field("time_out", a[1]),
                                             Field("total_hours", a[2]),
                                             Field("extra_hours", Num(0))>>))
               /\ Arg(a, 3) # Undefined
                    => Request(c).body =
                         JSONstringify(Obj(<<Field("time_out", a[1]),
                                             Field("total_hours", a[2]),
                                             Field("extra_hours", a[3])>>))
               /\ a = <<Str("17:00"), Num(8)>>
                    => Request(c).body =
                         "{\"time_out\":\"17:00\",\"total_hours\":8,\"extra_hours\":0}"

C10_Witness ==
    \E c \in Calls :
        /\ op[c] = "timeOut"
        /\ args[c] = <<Str("17:00"), Num(8)>>
        /\ sent[c] # <<>>
        /\ Request(c).body = "{\"time_out\":\"17:00\",\"total_hours\":8,\"extra_hours\":0}"

====
